---- MODULE Spec2Model ----
(***************************************************************************)
(* ripunzip: the cloneable seekable reader                                 *)
(* (src/src/unzip/cloneable_seekable_reader.rs) and the command-line       *)
(* driver (src/src/main.rs).                                               *)
(*                                                                         *)
(* Every CloneableSeekableReader handle owns a cursor `pos` and an         *)
(* optional cached `file_length`; all handles share one underlying source  *)
(* behind a mutex.  A read is lock / underlying seek / underlying read /   *)
(* advance pos / unlock, and these steps of different handles interleave.  *)
(* u64 and i64 are scaled down to Bits bits, so that every wrap-around is  *)
(* within reach of the model checker.                                      *)
(***************************************************************************)
EXTENDS Integers, Sequences, FiniteSets, TLC

\* ---------------------------------------------------------------- bounds
NumHandles == 2      \* handles that can exist at once (new() plus clones)
MaxLen == 2          \* largest length of the underlying source
MaxBuf == 2          \* largest buffer handed to read
MaxReadahead == 2    \* largest --readahead-limit on the command line
MaxObject == 3       \* largest length of the remote object
MaxForced == 3       \* new streams counted per extraction
Bits == 3            \* width the 64-bit integers are scaled to
MaxMembers == 2      \* most members in an archive
PoolSize == 2        \* workers of the pool
MaxChunk == 2        \* most bytes a worker reports in one bytes_extracted

Handles == 1..NumHandles
U64Mod == 2 ^ Bits
U64 == 0..(U64Mod - 1)
I64Min == -(2 ^ (Bits - 1))
I64Max == (2 ^ (Bits - 1)) - 1
I64 == I64Min..I64Max
ErrorKinds == {"Other", "TimedOut"}
SeekFroms == [whence : {"Start"}, off : U64] \cup [whence : {"End", "Current"}, off : I64]

VARIABLES
  overflow_checks,  \* build profile: TRUE = arithmetic overflow panics, FALSE = it wraps
  srcKind,          \* "cursor" (in-memory, never fails) or "stream" (may fail, may read short)
  len,              \* HasLength::len() of the underlying source
  upos,             \* cursor of the underlying source
  mutex,            \* set of handles holding the MutexGuard of `file`
  poisoned,         \* TRUE once a guard of `file` was dropped by a panicking thread
  live,             \* the handles that exist
  pos,              \* pos[h]: CloneableSeekableReader::pos
  file_length,      \* file_length[h]: {} is None, {n} is Some(n)
  pc,               \* pc[h]: where handle h's current call stands
  cnt,              \* cnt[h]: lock acquisitions and underlying seeks/reads of the call in progress
  ghost,            \* which history variables are kept: "calls" (last), "seeks" (last, when
                    \* it is a seek or a clone), "bytes" (anchor, got)
  last,             \* history: the call that completed last: handle, operation, outcome
  anchor,           \* history: anchor[h] is {k} after seek(Start(k)) while only reads followed
  got,              \* history: got[h] holds the bytes read since that seek
  mainPc,           \* position of main()
  command,          \* Args as parsed: subcommand and options
  zipfile,          \* {} or {"File"}: the local archive once File::open returned it
  engine,           \* {} or {"UnzipEngine"}: the engine once for_file / for_uri returned it
  result,           \* the Result main is about to return
  unzipCalls,       \* how many times unzip() was invoked
  exitCode,         \* {} while running, {c} once the process exited with code c
  archive,          \* the archive's members, in directory order (indices into Catalogue)
  options,          \* UnzipOptions, and whether the output root can be a directory
  ePc,              \* where unzip() stands
  task,             \* task[i]: pending, started, writing, done, failed or cancelled
  written,          \* written[i]: bytes of member i written so far
  tree,             \* what exists under the output root
  outside,          \* members materialized outside the output root
  firstError,       \* the first fatal error recorded
  errors,           \* how many fatal errors were recorded
  eResult,          \* what unzip() returned
  bar,              \* the ProgressBar of ProgressDisplayer
  totalCalls,       \* calls of total_bytes_expected
  bytesCalls,       \* calls of bytes_extracted
  earlyBytes,       \* history: a bytes_extracted call came before total_bytes_expected
  hLen,             \* length of the remote object, known from construction
  readahead_limit,  \* {} unbounded, {n}: at most n bytes held beyond the cursor
  cursor,           \* the ranged reader's logical cursor
  fetched,          \* bytes of the current stream held beyond the cursor
  warned,           \* the reader has invoked the insufficient-readahead callback
  warnings,         \* warnings printed by report_on_insufficient_readahead_size
  forced,           \* history: seeks that made the reader open a new stream
  hState,           \* "idle", "reading", "done" or "failed" (HttpTransient)
  hLast             \* history: the reader's last call and what it returned

readerVars == <<overflow_checks, srcKind, len, upos, mutex, poisoned, live, pos, file_length,
                pc, cnt, ghost, last, anchor, got>>
mainVars == <<mainPc, command, zipfile, engine, result, unzipCalls, exitCode>>
vars == <<overflow_checks, srcKind, len, upos, mutex, poisoned, live, pos, file_length,
          pc, cnt, ghost, last, anchor, got,
          mainPc, command, zipfile, engine, result, unzipCalls, exitCode,
          archive, options, ePc, task, written, tree, outside, firstError, errors,
          eResult, bar, totalCalls, bytesCalls, earlyBytes,
          hLen, readahead_limit, cursor, fetched, warned, warnings, forced, hState, hLast>>
engineVars == <<archive, options, ePc, task, written, tree, outside, firstError, errors,
                eResult, bar, totalCalls, bytesCalls, earlyBytes>>
httpVars == <<hLen, readahead_limit, cursor, fetched, warned, warnings, forced, hState, hLast>>

\* ------------------------------------------------------ the byte source
\* The test's source is vec![0, 1, ..., 9]: the byte at offset i is i.
ByteAt(i) == i % 256

\* The bytes [from, from + n) of the source.
Bytes(from, n) == [j \in 1..n |-> ByteAt(from + j - 1)]

Min(a, b) == IF a < b THEN a ELSE b

\* What one underlying read(buf) may return with the cursor at p and a buffer
\* of n bytes: a Cursor fills as much as remains, a stream may stop short.
ReadCounts(p, n) ==
  LET avail == IF p >= len THEN 0 ELSE len - p
      full == Min(n, avail)
  IN IF srcKind = "cursor" \/ full = 0 THEN {full} ELSE 1..full

\* ------------------------------------------------- fixed-width arithmetic
AsU64(i) == i % U64Mod
NegI64(d) == [ovf |-> d = I64Min, val |-> IF d = I64Min THEN I64Min ELSE -d]
SubU64(a, b) == [ovf |-> a < b, val |-> (a - b) % U64Mod]
AddU64(a, b) == [ovf |-> a + b >= U64Mod, val |-> (a + b) % U64Mod]

\* ------------------------------------------------------- call outcomes
NoCall == [h |-> 0, op |-> "none", whence |-> "-", kind |-> "none", val |-> 0, err |-> "-",
           bytes |-> <<>>, locks |-> 0, seeks |-> 0, reads |-> 0]
Cloned(h, g) == [NoCall EXCEPT !.h = g, !.op = "clone", !.kind = "ok", !.val = h]
ReadOk(h, n, bs) == [NoCall EXCEPT !.h = h, !.op = "read", !.kind = "ok", !.val = n, !.bytes = bs]
ReadErr(h, e) == [NoCall EXCEPT !.h = h, !.op = "read", !.kind = "err", !.err = e]
ReadPanic(h) == [NoCall EXCEPT !.h = h, !.op = "read", !.kind = "panic"]
SeekOk(h, w, p) == [NoCall EXCEPT !.h = h, !.op = "seek", !.whence = w, !.kind = "ok", !.val = p]
SeekPanic(h, w) == [NoCall EXCEPT !.h = h, !.op = "seek", !.whence = w, !.kind = "panic"]
ZeroCnt == [lock |-> 0, seek |-> 0, read |-> 0]
\* The outcome r of a call that took c.lock locks and made c.seek underlying seeks
\* and c.read underlying reads.
Done(c, r) ==
  IF "calls" \in ghost \/ ("seeks" \in ghost /\ r.op \in {"seek", "clone"})
  THEN [r EXCEPT !.locks = c.lock, !.seeks = c.seek, !.reads = c.read]
  ELSE NoCall
\* The bytes collected since seek(Start), when that history is kept.
Kept(a, bs) == IF "bytes" \in ghost /\ a # {} THEN bs ELSE <<>>
Anchor(a) == IF "bytes" \in ghost THEN a ELSE {}

\* ------------------------------------------------------------ the mutex
\* A lock that excludes nobody.
LockAlwaysGranted == TRUE

\* Mutex::lock returns only when no other guard exists.
LockFree == mutex = {}

\* A guard that is never dropped.
UnlockForgotten(h) == mutex

\* The MutexGuard of h goes out of scope (return, `?`, end of statement, unwinding).
Unlocked(h) == mutex \ {h}

\* ---------------------------------------------- CloneableSeekableReader
\* new(file): pos 0, no cached length; the source's own cursor starts at 0.
ReaderInit ==
  /\ overflow_checks \in BOOLEAN
  /\ srcKind \in {"cursor", "stream"}
  /\ len \in 0..MaxLen
  /\ upos = 0
  /\ mutex = {}
  /\ poisoned = FALSE
  /\ live = {1}
  /\ pos = [h \in Handles |-> 0]
  /\ file_length = [h \in Handles |-> {}]
  /\ pc = [h \in Handles |-> "idle"]
  /\ cnt = [h \in Handles |-> ZeroCnt]
  /\ last = NoCall
  /\ anchor = [h \in Handles |-> {}]
  /\ got = [h \in Handles |-> <<>>]
  /\ ghost \in SUBSET {"calls", "seeks", "bytes"}

\* A clone that starts over at the beginning of the source.
ClonedPosRewound(h) == 0

\* The fields clone() gives the new handle.
ClonedPos(h) == pos[h]

\* A clone that has to ask for the length again.
ClonedLengthForgotten(h) == {}

ClonedLength(h) == file_length[h]

\* clone(): a new handle on the same source, with the parent's pos and cached length.
Clone(h) ==
  /\ h \in live /\ pc[h] = "idle"
  /\ live # Handles
  /\ LET g == CHOOSE x \in Handles \ live : \A y \in Handles \ live : x <= y
     IN /\ live' = live \cup {g}
        /\ pos' = [pos EXCEPT ![g] = ClonedPos(h)]
        /\ file_length' = [file_length EXCEPT ![g] = ClonedLength(h)]
        /\ last' = Done(ZeroCnt, Cloned(h, g))
  /\ UNCHANGED <<ghost, poisoned, overflow_checks, srcKind, len, upos, mutex, pc, cnt, anchor, got>>

\* read(buf) is entered and blocks on the lock.
ReadCall(h) ==
  /\ h \in live /\ pc[h] = "idle"
  /\ pc' = [pc EXCEPT ![h] = "rd_wait"]
  /\ UNCHANGED <<ghost, poisoned, overflow_checks, srcKind, len, upos, mutex, live, pos, file_length, cnt, last, anchor, got>>

\* A lock whose poison is never looked at.
LockFailsNever(p) == FALSE

\* Mutex::lock() on a mutex in poison state p: Err(PoisonError) exactly when a
\* guard was dropped during a panic; expect(..) / unwrap() then panic.
LockFails(p) == p

\* self.file.lock().expect(..): the guard, or a panic on a poisoned lock (the
\* guard inside the PoisonError is dropped as the panic unwinds).
ReadLock(h) ==
  /\ pc[h] = "rd_wait"
  /\ LockFree
  /\ IF LockFails(poisoned)
     THEN /\ pc' = [pc EXCEPT ![h] = "panicked"]
          /\ last' = Done([cnt[h] EXCEPT !.lock = @ + 1], [ReadPanic(h) EXCEPT !.err = "PoisonError"])
          /\ cnt' = [cnt EXCEPT ![h] = ZeroCnt]
          /\ anchor' = [anchor EXCEPT ![h] = {}]
          /\ got' = [got EXCEPT ![h] = <<>>]
          /\ UNCHANGED mutex
     ELSE /\ mutex' = mutex \cup {h}
          /\ pc' = [pc EXCEPT ![h] = "rd_locked"]
          /\ cnt' = [cnt EXCEPT ![h].lock = @ + 1]
          /\ UNCHANGED <<last, anchor, got>>
  /\ UNCHANGED <<ghost, poisoned, overflow_checks, srcKind, len, upos, live, pos, file_length>>

\* A read that goes on from wherever the shared cursor was left.
UnderlyingSeekSkipped(h) == upos

\* Where underlying_file.seek(SeekFrom::Start(self.pos)) leaves the source's cursor.
UnderlyingSeekTarget(h) == pos[h]

\* underlying_file.seek(SeekFrom::Start(self.pos)) succeeds.
ReadSeek(h) ==
  /\ pc[h] = "rd_locked"
  /\ upos' = UnderlyingSeekTarget(h)
  /\ pc' = [pc EXCEPT ![h] = "rd_seeked"]
  /\ cnt' = [cnt EXCEPT ![h].seek = @ + 1]
  /\ UNCHANGED <<ghost, poisoned, overflow_checks, srcKind, len, mutex, live, pos, file_length, last, anchor, got>>

\* The underlying error replaced by a generic one.
PropagatedAsOther(e) == "Other"

\* What `?` hands to the caller for the underlying error e.
Propagated(e) == e

\* underlying_file.seek(..)? fails: the error is returned and the guard dropped.
ReadSeekFail(h, e) ==
  /\ pc[h] = "rd_locked"
  /\ srcKind = "stream"
  /\ last' = Done([cnt[h] EXCEPT !.seek = @ + 1], ReadErr(h, Propagated(e)))
  /\ mutex' = Unlocked(h)
  /\ pc' = [pc EXCEPT ![h] = "idle"]
  /\ cnt' = [cnt EXCEPT ![h] = ZeroCnt]
  /\ UNCHANGED <<ghost, poisoned, overflow_checks, srcKind, len, upos, live, pos, file_length, anchor, got>>

\* pos advanced by the size of the buffer instead of the bytes read.
PosAfterReadWholeBuffer(p, b, n) == AddU64(p, b)

\* self.pos += bytes_read as u64
\* (b is buf.len(), n the bytes_read of Ok(bytes_read))
PosAfterRead(p, b, n) == AddU64(p, n)

\* underlying_file.read(buf), with buf of b bytes, returns Ok(n); pos is advanced
\* by n, read_result returned and the guard dropped.  An overflow panic of the
\* addition unwinds with the guard alive and so poisons the lock.
ReadRead(h, b, n) ==
  /\ pc[h] = "rd_seeked"
  /\ n \in ReadCounts(upos, b)
  /\ upos' = upos + n
  /\ mutex' = Unlocked(h)
  /\ cnt' = [cnt EXCEPT ![h] = ZeroCnt]
  /\ LET np == PosAfterRead(pos[h], b, n)
         c == [cnt[h] EXCEPT !.read = @ + 1]
     IN IF np.ovf /\ overflow_checks
        THEN /\ pc' = [pc EXCEPT ![h] = "panicked"]
             /\ last' = Done(c, ReadPanic(h))
             /\ anchor' = [anchor EXCEPT ![h] = {}]
             /\ got' = [got EXCEPT ![h] = <<>>]
             /\ poisoned' = TRUE
             /\ UNCHANGED pos
        ELSE /\ pos' = [pos EXCEPT ![h] = np.val]
             /\ pc' = [pc EXCEPT ![h] = "idle"]
             /\ last' = Done(c, ReadOk(h, n, Bytes(upos, n)))
             /\ got' = [got EXCEPT ![h] = Kept(anchor[h], @ \o Bytes(upos, n))]
             /\ UNCHANGED <<anchor, poisoned>>
  /\ UNCHANGED <<ghost, overflow_checks, srcKind, len, live, file_length>>

\* underlying_file.read(buf) returns Err(e): pos is not touched, the error is
\* returned and the guard dropped.
ReadReadFail(h, e) ==
  /\ pc[h] = "rd_seeked"
  /\ srcKind = "stream"
  /\ last' = Done([cnt[h] EXCEPT !.read = @ + 1], ReadErr(h, e))
  /\ mutex' = Unlocked(h)
  /\ pc' = [pc EXCEPT ![h] = "idle"]
  /\ cnt' = [cnt EXCEPT ![h] = ZeroCnt]
  /\ UNCHANGED <<ghost, poisoned, overflow_checks, srcKind, len, upos, live, pos, file_length, anchor, got>>

\* seek with the negation of the offset forgotten in the End arm.
SeekNewPosEndUnnegated(p, flen, sf) ==
  CASE sf.whence = "Start" -> [ovf |-> FALSE, val |-> sf.off]
    [] sf.whence = "End" -> SubU64(flen, AsU64(sf.off))
    [] sf.whence = "Current" ->
         IF sf.off > 0
         THEN AddU64(p, AsU64(sf.off))
         ELSE LET n == NegI64(sf.off)
                  s == SubU64(p, AsU64(n.val))
              IN [ovf |-> n.ovf \/ s.ovf, val |-> s.val]

\* `new_pos` of seek: p is self.pos, flen the length ascertain_file_length returned.
\* ovf says that an arithmetic step left its type's range.
SeekNewPos(p, flen, sf) ==
  CASE sf.whence = "Start" -> [ovf |-> FALSE, val |-> sf.off]
    [] sf.whence = "End" ->
         LET n == NegI64(sf.off)
             s == SubU64(flen, AsU64(n.val))
         IN [ovf |-> n.ovf \/ s.ovf, val |-> s.val]
    [] sf.whence = "Current" ->
         IF sf.off > 0
         THEN AddU64(p, AsU64(sf.off))
         ELSE LET n == NegI64(sf.off)
                  s == SubU64(p, AsU64(n.val))
              IN [ovf |-> n.ovf \/ s.ovf, val |-> s.val]

\* The tail of seek, once the length (if needed) is known: self.pos = new_pos; Ok(new_pos).
\* With overflow checks compiled in, an overflowing step panics before pos is assigned.
SeekFinish(h, sf, flen) ==
  LET np == SeekNewPos(pos[h], flen, sf)
  IN /\ IF np.ovf /\ overflow_checks
        THEN /\ pc' = [pc EXCEPT ![h] = "panicked"]
             /\ last' = Done(cnt[h], SeekPanic(h, sf.whence))
             /\ anchor' = [anchor EXCEPT ![h] = {}]
             /\ UNCHANGED pos
        ELSE /\ pos' = [pos EXCEPT ![h] = np.val]
             /\ pc' = [pc EXCEPT ![h] = "idle"]
             /\ last' = Done(cnt[h], SeekOk(h, sf.whence, np.val))
             /\ anchor' = [anchor EXCEPT ![h] = Anchor(IF sf.whence = "Start" THEN {sf.off} ELSE {})]
     /\ got' = [got EXCEPT ![h] = <<>>]
     /\ cnt' = [cnt EXCEPT ![h] = ZeroCnt]

\* Whether seek(sf) on h has to take the lock: ascertain_file_length with no cached length.
NeedsLength(h, sf) == sf.whence = "End" /\ file_length[h] = {}

\* A seek that also seeks the shared source.
SeekThroughSource(h, sf) ==
  /\ h \in live /\ pc[h] = "idle"
  /\ ~NeedsLength(h, sf)
  /\ SeekFinish(h, sf, IF sf.whence = "End" THEN CHOOSE n \in file_length[h] : TRUE ELSE 0)
  /\ upos' = pos'[h]
  /\ UNCHANGED <<ghost, poisoned, overflow_checks, srcKind, len, mutex, live, file_length>>

\* seek(Start), seek(Current), and seek(End) with the length already cached.
Seek(h, sf) ==
  /\ h \in live /\ pc[h] = "idle"
  /\ ~NeedsLength(h, sf)
  /\ SeekFinish(h, sf, IF sf.whence = "End" THEN CHOOSE n \in file_length[h] : TRUE ELSE 0)
  /\ UNCHANGED <<ghost, poisoned, overflow_checks, srcKind, len, upos, mutex, live, file_length>>

\* seek(End(_)) with no cached length: ascertain_file_length blocks on the lock.
SeekEndCall(h) ==
  /\ h \in live /\ pc[h] = "idle"
  /\ file_length[h] = {}
  /\ pc' = [pc EXCEPT ![h] = "len_wait"]
  /\ UNCHANGED <<ghost, poisoned, overflow_checks, srcKind, len, upos, mutex, live, pos, file_length, cnt, last, anchor, got>>

\* self.file.lock().unwrap(): the guard, or a panic on a poisoned lock.
LenLock(h) ==
  /\ pc[h] = "len_wait"
  /\ LockFree
  /\ IF LockFails(poisoned)
     THEN /\ pc' = [pc EXCEPT ![h] = "panicked"]
          /\ last' = Done([cnt[h] EXCEPT !.lock = @ + 1], [SeekPanic(h, "End") EXCEPT !.err = "PoisonError"])
          /\ cnt' = [cnt EXCEPT ![h] = ZeroCnt]
          /\ anchor' = [anchor EXCEPT ![h] = {}]
          /\ got' = [got EXCEPT ![h] = <<>>]
          /\ UNCHANGED mutex
     ELSE /\ mutex' = mutex \cup {h}
          /\ pc' = [pc EXCEPT ![h] = "len_locked"]
          /\ cnt' = [cnt EXCEPT ![h].lock = @ + 1]
          /\ UNCHANGED <<last, anchor, got>>
  /\ UNCHANGED <<ghost, poisoned, overflow_checks, srcKind, len, upos, live, pos, file_length>>

\* .len(): the length is cached, the guard dropped at the end of the statement,
\* and seek(End(d)) goes on with the arithmetic.
LenRead(h, d) ==
  /\ pc[h] = "len_locked"
  /\ file_length' = [file_length EXCEPT ![h] = {len}]
  /\ mutex' = Unlocked(h)
  /\ SeekFinish(h, [whence |-> "End", off |-> d], len)
  /\ UNCHANGED <<ghost, poisoned, overflow_checks, srcKind, len, upos, live>>

\* The underlying source panics inside the critical section: File::len is
\* metadata().unwrap().len(), and R's seek and read are the source's own code.
\* The guard is dropped as the panic unwinds, which poisons the lock.
SourcePanics(h) ==
  /\ pc[h] \in {"rd_locked", "rd_seeked", "len_locked"}
  /\ srcKind = "stream"
  /\ poisoned' = TRUE
  /\ mutex' = Unlocked(h)
  /\ pc' = [pc EXCEPT ![h] = "panicked"]
  /\ last' = Done(cnt[h], IF pc[h] = "len_locked" THEN SeekPanic(h, "End") ELSE ReadPanic(h))
  /\ cnt' = [cnt EXCEPT ![h] = ZeroCnt]
  /\ anchor' = [anchor EXCEPT ![h] = {}]
  /\ got' = [got EXCEPT ![h] = <<>>]
  /\ UNCHANGED <<ghost, overflow_checks, srcKind, len, upos, live, pos, file_length>>

\* The length of the underlying stream changes (a file is appended to or
\* truncated by somebody else); the handles are not told.
SourceResized(n) ==
  /\ srcKind = "stream"
  /\ n # len
  /\ len' = n
  /\ UNCHANGED <<ghost, poisoned, overflow_checks, srcKind, upos, mutex, live, pos, file_length,
                 pc, cnt, last, anchor, got>>

\* seek(sf) on h lands in [0, len + 1]: no arithmetic step leaves its range.
InWindow(h, sf) ==
  LET t == CASE sf.whence = "Start" -> sf.off
             [] sf.whence = "Current" -> pos[h] + sf.off
             [] sf.whence = "End" -> len + sf.off
  IN 0 <= t /\ t <= len + 1

\* Several handles, every interleaving of their calls; the seeks stay in the window.
ReaderNext ==
  \/ \E h \in Handles : Clone(h)
  \/ \E h \in Handles : ReadCall(h)
  \/ \E h \in Handles : ReadLock(h)
  \/ \E h \in Handles : ReadSeek(h)
  \/ \E h \in Handles, e \in ErrorKinds : ReadSeekFail(h, e)
  \/ \E h \in Handles, b \in 0..MaxBuf, n \in 0..MaxBuf : ReadRead(h, b, n)
  \/ \E h \in Handles, e \in ErrorKinds : ReadReadFail(h, e)
  \/ \E h \in Handles, sf \in SeekFroms : InWindow(h, sf) /\ Seek(h, sf)
  \/ \E h \in Handles : SeekEndCall(h)
  \/ \E h \in Handles : LenLock(h)
  \/ \E h \in Handles, d \in I64 : InWindow(h, [whence |-> "End", off |-> d]) /\ LenRead(h, d)

\* One handle, every seek the types allow.
SoloNext ==
  \/ ReadCall(1)
  \/ ReadLock(1)
  \/ ReadSeek(1)
  \/ \E e \in ErrorKinds : ReadSeekFail(1, e)
  \/ \E b \in 0..MaxBuf, n \in 0..MaxBuf : ReadRead(1, b, n)
  \/ \E e \in ErrorKinds : ReadReadFail(1, e)
  \/ \E sf \in SeekFroms : Seek(1, sf)
  \/ SeekEndCall(1)
  \/ LenLock(1)
  \/ \E d \in I64 : LenRead(1, d)

\* A shared, non-empty source that may fail and read short (a Cursor's behaviours
\* are among a stream's), in the build that checks overflow, where a wrap-around
\* shows as a panic.
SharedInit == ReaderInit /\ srcKind = "stream" /\ overflow_checks /\ len >= 1

\* The same calls, over a source that may also panic under the lock.
LockNext ==
  \/ ReaderNext
  \/ \E h \in Handles : SourcePanics(h)

\* The calls over a stream that grows and shrinks without becoming empty; reads
\* with a full-size buffer that do not fail.
ResizeNext ==
  \/ \E h \in Handles : Clone(h)
  \/ \E h \in Handles : ReadCall(h)
  \/ \E h \in Handles : ReadLock(h)
  \/ \E h \in Handles : ReadSeek(h)
  \/ \E h \in Handles, n \in 0..MaxBuf : ReadRead(h, MaxBuf, n)
  \/ \E h \in Handles, sf \in SeekFroms : InWindow(h, sf) /\ Seek(h, sf)
  \/ \E h \in Handles : SeekEndCall(h)
  \/ \E h \in Handles : LenLock(h)
  \/ \E h \in Handles, d \in I64 : InWindow(h, [whence |-> "End", off |-> d]) /\ LenRead(h, d)
  \/ \E n \in 1..MaxLen : SourceResized(n)

\* The steps of h inside its critical section; one of them is enabled as long as
\* h holds the lock.
CriticalStep(h) ==
  \/ ReadSeek(h)
  \/ \E e \in ErrorKinds : ReadSeekFail(h, e)
  \/ \E b \in 0..MaxBuf, n \in 0..MaxBuf : ReadRead(h, b, n)
  \/ \E e \in ErrorKinds : ReadReadFail(h, e)
  \/ \E d \in I64 : InWindow(h, [whence |-> "End", off |-> d]) /\ LenRead(h, d)
  \/ SourcePanics(h)

\* ------------------------------------------------------------- main()
NoCommand == [kind |-> "none", output_directory |-> {}, single_threaded |-> FALSE, readahead_limit |-> {}]

\* Args::parse(): `file <ZIPFILE>` or `uri <URI> [--readahead-limit BYTES]`,
\* with -o/--output-directory and --single-threaded.
Commands ==
  [kind : {"file"}, output_directory : {{}, {"out"}}, single_threaded : BOOLEAN,
   readahead_limit : {{}}]
  \cup
  [kind : {"uri"}, output_directory : {{}, {"out"}}, single_threaded : BOOLEAN,
   readahead_limit : {{}} \cup {{n} : n \in 1..MaxReadahead}]

Ok == [kind |-> "ok", err |-> "-"]
Err(e) == [kind |-> "err", err |-> e]
Panicked == [kind |-> "panic", err |-> "-"]

\* What File::open can return.
OpenOutcomes == {Ok} \cup {Err(e) : e \in {"NotFound", "PermissionDenied"}}

\* What the engine's constructors and unzip() can return to main: Ok, an error
\* of one of the spec's kinds, or a panic that unwinds through main.
ConstructOutcomes == {Ok, Panicked} \cup {Err(e) : e \in {"SourceOpen", "ArchiveMalformed"}}
UnzipOutcomes ==
  {Ok, Panicked} \cup {Err(e) : e \in {"MemberExtract", "FilesystemCreate", "PathUnsafe", "HttpTransient"}}

\* The exit code of `fn main() -> Result<()>`: 0 for Ok, 1 for Err; a panic ends
\* the process with 101.
ExitOf(r) == IF r.kind = "ok" THEN 0 ELSE IF r.kind = "err" THEN 1 ELSE 101

MainIdle ==
  /\ mainPc = "start" /\ command = NoCommand /\ zipfile = {} /\ engine = {}
  /\ result = Ok /\ unzipCalls = 0 /\ exitCode = {}

MainInit ==
  /\ mainPc = "start" /\ command \in Commands /\ zipfile = {} /\ engine = {}
  /\ result = Ok /\ unzipCalls = 0 /\ exitCode = {}

\* A failure that is ignored: main goes on to the next statement.
TryIgnoringFailure(r, next) == next

\* `?`: Ok goes on to the next statement, anything else leaves main with it.
Try(r, next) == IF r.kind = "ok" THEN next ELSE "return"

\* let zipfile = File::open(zipfile)?;
MainOpen(r) ==
  /\ mainPc = "start" /\ command.kind = "file"
  /\ r \in OpenOutcomes
  /\ result' = r
  /\ zipfile' = IF r.kind = "ok" THEN {"File"} ELSE {}
  /\ mainPc' = Try(r, "opened")
  /\ UNCHANGED <<command, engine, unzipCalls, exitCode>>

\* UnzipEngine::for_file(zipfile, options, ProgressDisplayer::new())?
MainForFile(r) ==
  /\ mainPc = "opened"
  /\ r \in ConstructOutcomes
  /\ result' = r
  /\ engine' = IF r.kind = "ok" THEN {"UnzipEngine"} ELSE {}
  /\ mainPc' = Try(r, "constructed")
  /\ UNCHANGED <<command, zipfile, unzipCalls, exitCode>>

\* UnzipEngine::for_uri(uri, options, *readahead_limit, .., ..)?
MainForUri(r) ==
  /\ mainPc = "start" /\ command.kind = "uri"
  /\ r \in ConstructOutcomes
  /\ result' = r
  /\ engine' = IF r.kind = "ok" THEN {"UnzipEngine"} ELSE {}
  /\ mainPc' = Try(r, "constructed")
  /\ UNCHANGED <<command, zipfile, unzipCalls, exitCode>>

\* .unzip(): its Result is the value of the match, and so of main.
MainUnzip(r) ==
  /\ mainPc = "constructed"
  /\ r \in UnzipOutcomes
  /\ unzipCalls' = unzipCalls + 1
  /\ result' = r
  /\ mainPc' = "return"
  /\ UNCHANGED <<command, zipfile, engine, exitCode>>

\* main returns; the runtime turns its Result into the exit code.
MainReturn ==
  /\ mainPc = "return"
  /\ exitCode' = {ExitOf(result)}
  /\ mainPc' = "exited"
  /\ UNCHANGED <<command, zipfile, engine, result, unzipCalls>>

MainNext ==
  \/ \E r \in OpenOutcomes : MainOpen(r)
  \/ \E r \in ConstructOutcomes : MainForFile(r)
  \/ \E r \in ConstructOutcomes : MainForUri(r)
  \/ \E r \in UnzipOutcomes : MainUnzip(r)
  \/ MainReturn

\* ------------------------------------------------------ the progress bar
\* ProgressBar::new(0): no length set, position 0, no message.
NewBar == [length |-> {}, position |-> 0, message |-> 0]

\* total_bytes_expected(expected): self.0.set_length(expected)
SetLength(b, expected) == [b EXCEPT !.length = {expected}]

\* A reporter that shows the last increment instead of adding it.
BarSetToCount(b, count) == [b EXCEPT !.position = count]

\* bytes_extracted(count): self.0.inc(count)
BytesExtracted(b, count) == [b EXCEPT !.position = @ + count]

\* extraction_starting(display_name): self.0.set_message(..); i names the member
ExtractionStarting(b, i) == [b EXCEPT !.message = i]

\* ---------------------------------------------------------- the archive
\* The members an archive is made of: stored name (components, absolute or not),
\* directory entry or file, uncompressed size, and whether its data is corrupt.
Member(n, a, d, s, c) == [name |-> n, abs |-> a, dir |-> d, size |-> s, corrupt |-> c]
Catalogue ==
  << Member(<<"a">>, FALSE, FALSE, 1, FALSE),
     Member(<<"a">>, FALSE, TRUE, 0, FALSE),
     Member(<<"a", "b">>, FALSE, FALSE, 2, FALSE),
     Member(<<"c">>, FALSE, FALSE, 1, FALSE),
     Member(<<"d">>, FALSE, FALSE, 1, TRUE),
     Member(<<"..", "x">>, FALSE, FALSE, 1, FALSE),
     Member(<<"x">>, TRUE, FALSE, 1, FALSE),
     Member(<<"a", "..", "..", "x">>, FALSE, FALSE, 1, FALSE) >>

\* Archives: up to MaxMembers different members, in directory order.
Archives ==
  {s \in UNION {[1..n -> 1..Len(Catalogue)] : n \in 0..MaxMembers} :
     \A i \in 1..Len(s), j \in 1..Len(s) : i # j => s[i] # s[j]}

\* ------------------------------------------------------------ path safety
\* Component-wise normalization of a relative name: ".." removes the component
\* before it and escapes the root when there is none.
RECURSIVE Normalize(_, _)
Normalize(comps, acc) ==
  IF comps = <<>> THEN [escapes |-> FALSE, path |-> acc]
  ELSE IF Head(comps) = ".."
       THEN IF acc = <<>> THEN [escapes |-> TRUE, path |-> <<>>]
            ELSE Normalize(Tail(comps), SubSeq(acc, 1, Len(acc) - 1))
       ELSE Normalize(Tail(comps), Append(acc, Head(comps)))

\* A name that would land outside the output root: absolute, or with ".."
\* components that climb above it.
EscapesRoot(m) == m.abs \/ Normalize(m.name, <<>>).escapes

\* A check that lets every name through.
RejectedNever(m) == FALSE

\* Step 5a: such a name is rejected.
Rejected(m) == EscapesRoot(m)

\* Where the member lands: under the root, at its normalized path.
Destination(m) == Normalize(m.name, <<>>).path

\* ---------------------------------------------------------- the filesystem
\* The tree under an output root: a set of [path, kind] entries.
Prefixes(p) == {SubSeq(p, 1, n) : n \in 1..Len(p)}
IsFile(t, p) == [path |-> p, kind |-> "file"] \in t
IsDir(t, p) == [path |-> p, kind |-> "dir"] \in t

\* mkdir -p: fails when a file is in the way.
MkdirAll(t, p) ==
  IF \E q \in Prefixes(p) : IsFile(t, q)
  THEN [ok |-> FALSE, tree |-> t]
  ELSE [ok |-> TRUE, tree |-> t \cup {[path |-> q, kind |-> "dir"] : q \in Prefixes(p)}]

\* Create parent directories and open the destination file, truncating it.
CreateFile(t, p) ==
  LET par == IF Len(p) > 1 THEN MkdirAll(t, SubSeq(p, 1, Len(p) - 1))
             ELSE [ok |-> TRUE, tree |-> t]
  IN IF ~par.ok \/ IsDir(t, p)
     THEN [ok |-> FALSE, tree |-> par.tree]
     ELSE [ok |-> TRUE, tree |-> par.tree \cup {[path |-> p, kind |-> "file"]}]

\* Steps 5b and 5c up to the open destination.
Materialize(t, m) ==
  IF m.dir THEN MkdirAll(t, Destination(m)) ELSE CreateFile(t, Destination(m))

\* Workers that create each directory themselves and fail on one that exists.
MaterializeExclusive(t, m) ==
  LET p == Destination(m)
      q == IF m.dir THEN p ELSE SubSeq(p, 1, Len(p) - 1)
  IN IF q # <<>> /\ IsDir(t, q) THEN [ok |-> FALSE, tree |-> t] ELSE Materialize(t, m)

\* What a worker does to the tree for member m, whatever the other workers
\* have created by then.
WorkerMaterialize(t, m) == Materialize(t, m)

\* The baseline extractor: the members one after the other, in directory order,
\* stopping at the first it cannot extract.
RECURSIVE Baseline(_, _)
Baseline(ar, t) ==
  IF ar = <<>> THEN [ok |-> TRUE, tree |-> t]
  ELSE LET m == Catalogue[Head(ar)]
       IN IF EscapesRoot(m) THEN [ok |-> FALSE, tree |-> t]
          ELSE LET r == Materialize(t, m)
               IN IF ~r.ok \/ m.corrupt THEN [ok |-> FALSE, tree |-> r.tree]
                  ELSE Baseline(Tail(ar), r.tree)

RECURSIVE SumSizes(_)
SumSizes(ar) == IF ar = <<>> THEN 0 ELSE Catalogue[Head(ar)].size + SumSizes(Tail(ar))

\* ----------------------------------------------------------- UnzipEngine
Slots == 1..MaxMembers
NoError == [kind |-> "-", member |-> 0]

EngineIdle ==
  /\ archive = <<>> /\ options = [single_threaded |-> FALSE, root |-> "-"]
  /\ ePc = "idle" /\ task = [i \in Slots |-> "-"] /\ written = [i \in Slots |-> 0]
  /\ tree = {} /\ outside = {} /\ firstError = NoError /\ errors = 0
  /\ eResult = "-" /\ bar = NewBar /\ totalCalls = 0 /\ bytesCalls = 0 /\ earlyBytes = FALSE

\* An engine constructed over an archive; the output root is absent or a
\* directory ("usable") or exists and is not a directory ("blocked").
EngineInit ==
  /\ archive \in Archives
  /\ options \in [single_threaded : BOOLEAN, root : {"usable", "blocked"}]
  /\ ePc = "start"
  /\ task = [i \in Slots |-> IF i <= Len(archive) THEN "pending" ELSE "-"]
  /\ written = [i \in Slots |-> 0]
  /\ tree = {} /\ outside = {} /\ firstError = NoError /\ errors = 0
  /\ eResult = "-" /\ bar = NewBar /\ totalCalls = 0 /\ bytesCalls = 0 /\ earlyBytes = FALSE

Members == 1..Len(archive)
InFlight == {i \in Members : task[i] \in {"started", "writing"}}

\* A worker records a fatal error: the first one is kept.
Recorded(i, kind) == IF firstError = NoError THEN [kind |-> kind, member |-> i] ELSE firstError

\* Step 1: ensure the output directory exists; fail if it is not a directory.
EnsureRoot ==
  /\ ePc = "start"
  /\ IF options.root = "blocked"
     THEN /\ ePc' = "done" /\ eResult' = "FilesystemCreate"
          /\ firstError' = [kind |-> "FilesystemCreate", member |-> 0]
          /\ errors' = errors + 1
     ELSE /\ ePc' = "rooted" /\ UNCHANGED <<eResult, firstError, errors>>
  /\ UNCHANGED <<archive, options, task, written, tree, outside, bar, totalCalls, bytesCalls, earlyBytes>>

\* An engine that goes on to dispatch without reporting the total.
ReportTotalSkipped ==
  /\ ePc = "rooted"
  /\ ePc' = "dispatching"
  /\ UNCHANGED <<archive, options, task, written, tree, outside, firstError, errors, eResult, bar, totalCalls, bytesCalls, earlyBytes>>

\* Steps 2 and 3: enumerate the members, report the total uncompressed size.
ReportTotal ==
  /\ ePc = "rooted"
  /\ bar' = SetLength(bar, SumSizes(archive))
  /\ totalCalls' = totalCalls + 1
  /\ ePc' = "dispatching"
  /\ UNCHANGED <<archive, options, task, written, tree, outside, firstError, errors, eResult, bytesCalls, earlyBytes>>

\* A dispatch that goes on after an error was recorded.
MayDispatchRegardless == TRUE

\* Step 4 and section 5: no member is dispatched once a fatal error is recorded.
MayDispatch == firstError = NoError

\* Step 4: member i is handed to a worker (the calling thread, in directory
\* order, when single-threaded); extraction_starting is reported.
Dispatch(i) ==
  /\ ePc = "dispatching" /\ i \in Members /\ task[i] = "pending"
  /\ MayDispatch
  /\ IF options.single_threaded
     THEN InFlight = {} /\ \A j \in Members : j < i => task[j] # "pending"
     ELSE Cardinality(InFlight) < PoolSize
  /\ task' = [task EXCEPT ![i] = "started"]
  /\ bar' = ExtractionStarting(bar, archive[i])
  /\ UNCHANGED <<archive, options, ePc, written, tree, outside, firstError, errors, eResult, totalCalls, bytesCalls, earlyBytes>>

\* Steps 5a to 5c for member i: reject an unsafe name before touching the
\* filesystem; create the directory, or the parents and the destination file.
Open(i) ==
  /\ ePc = "dispatching" /\ task[i] = "started"
  /\ LET m == Catalogue[archive[i]]
     IN IF Rejected(m)
        THEN /\ task' = [task EXCEPT ![i] = "failed"]
             /\ firstError' = Recorded(i, "PathUnsafe")
             /\ errors' = errors + 1
             /\ UNCHANGED <<tree, outside>>
        ELSE IF EscapesRoot(m)
        THEN \* a name that was let through lands where the path join puts it
             /\ task' = [task EXCEPT ![i] = IF m.dir THEN "done" ELSE "writing"]
             /\ outside' = outside \cup {archive[i]}
             /\ UNCHANGED <<tree, firstError, errors>>
        ELSE LET r == WorkerMaterialize(tree, m)
             IN /\ tree' = r.tree
                /\ IF r.ok
                   THEN /\ task' = [task EXCEPT ![i] = IF m.dir THEN "done" ELSE "writing"]
                        /\ UNCHANGED <<firstError, errors>>
                   ELSE /\ task' = [task EXCEPT ![i] = "failed"]
                        /\ firstError' = Recorded(i, "FilesystemCreate")
                        /\ errors' = errors + 1
                /\ UNCHANGED outside
  /\ UNCHANGED <<archive, options, ePc, written, eResult, bar, totalCalls, bytesCalls, earlyBytes>>

\* Step 5c: the worker of member i writes d more bytes and reports them.
Write(i, d) ==
  /\ ePc = "dispatching" /\ task[i] = "writing"
  /\ d >= 1 /\ written[i] + d <= Catalogue[archive[i]].size
  /\ written' = [written EXCEPT ![i] = @ + d]
  /\ bar' = BytesExtracted(bar, d)
  /\ bytesCalls' = bytesCalls + 1
  /\ earlyBytes' = (earlyBytes \/ totalCalls = 0)
  /\ UNCHANGED <<archive, options, ePc, task, tree, outside, firstError, errors, eResult, totalCalls>>

\* Decompression or the checksum of member i fails.
ExtractFails(i) ==
  /\ ePc = "dispatching" /\ task[i] = "writing"
  /\ Catalogue[archive[i]].corrupt
  /\ task' = [task EXCEPT ![i] = "failed"]
  /\ firstError' = Recorded(i, "MemberExtract")
  /\ errors' = errors + 1
  /\ UNCHANGED <<archive, options, ePc, written, tree, outside, eResult, bar, totalCalls, bytesCalls, earlyBytes>>

\* Member i is written in full.
Finish(i) ==
  /\ ePc = "dispatching" /\ task[i] = "writing"
  /\ ~Catalogue[archive[i]].corrupt
  /\ written[i] = Catalogue[archive[i]].size
  /\ task' = [task EXCEPT ![i] = "done"]
  /\ UNCHANGED <<archive, options, ePc, written, tree, outside, firstError, errors, eResult, bar, totalCalls, bytesCalls, earlyBytes>>

\* A worker in flight is cancelled once a sibling has failed; its file stays.
Cancel(i) ==
  /\ ePc = "dispatching" /\ task[i] \in {"started", "writing"}
  /\ firstError # NoError
  /\ task' = [task EXCEPT ![i] = "cancelled"]
  /\ UNCHANGED <<archive, options, ePc, written, tree, outside, firstError, errors, eResult, bar, totalCalls, bytesCalls, earlyBytes>>

\* Step 6: join the workers; surface the first error, if any.
Join ==
  /\ ePc = "dispatching" /\ InFlight = {}
  /\ firstError # NoError \/ \A i \in Members : task[i] = "done"
  /\ eResult' = IF firstError = NoError THEN "Ok" ELSE firstError.kind
  /\ ePc' = "done"
  /\ UNCHANGED <<archive, options, task, written, tree, outside, firstError, errors, bar, totalCalls, bytesCalls, earlyBytes>>

EngineNext ==
  \/ EnsureRoot
  \/ ReportTotal
  \/ \E i \in Slots : Dispatch(i)
  \/ \E i \in Slots : Open(i)
  \/ \E i \in Slots, d \in 1..MaxChunk : Write(i, d)
  \/ \E i \in Slots : ExtractFails(i)
  \/ \E i \in Slots : Finish(i)
  \/ \E i \in Slots : Cancel(i)
  \/ Join

\* ------------------------------------------------------ RangedHttpReader
NoHttpCall == [op |-> "none", kind |-> "none", val |-> 0, newStream |-> FALSE]

HttpIdle ==
  /\ hLen = 0 /\ readahead_limit = {} /\ cursor = 0 /\ fetched = 0
  /\ warned = FALSE /\ warnings = 0 /\ forced = 0 /\ hState = "idle" /\ hLast = NoHttpCall

\* for_uri returned: the length is known, the cursor is at 0, nothing is
\* buffered, no warning has been given.
HttpInit ==
  /\ hLen \in 1..MaxObject
  /\ readahead_limit \in {{}} \cup {{n} : n \in 1..MaxReadahead}
  /\ cursor = 0 /\ fetched = 0
  /\ warned = FALSE /\ warnings = 0 /\ forced = 0 /\ hState = "reading" /\ hLast = NoHttpCall

\* The window a seek can stay in: from the cursor on, as far as the read-ahead
\* buffer may reach.
InReadahead(target) ==
  /\ target >= cursor
  /\ \A n \in readahead_limit : target - cursor <= n

\* report_on_insufficient_readahead_size: one more warning on the error stream.
ReportOnInsufficientReadaheadSize(w) == w + 1

\* A reader that calls back on every new stream.
EveryForcedStream(w) == TRUE

\* The callback is invoked the first time a seek forces a new stream.
FirstForcedStream(w) == ~w

\* The primary stream delivers one more byte into the read-ahead buffer, unless
\* the buffer is full (backpressure) or the object is exhausted.
HttpPull ==
  /\ hState = "reading"
  /\ cursor + fetched < hLen
  /\ \A n \in readahead_limit : fetched < n
  /\ fetched' = fetched + 1
  /\ UNCHANGED <<hLen, readahead_limit, cursor, warned, warnings, forced, hState, hLast>>

\* read: n buffered bytes are handed out and the cursor advances over them.
HttpRead(n) ==
  /\ hState = "reading"
  /\ n >= 1 /\ n <= fetched
  /\ cursor' = cursor + n
  /\ fetched' = fetched - n
  /\ hLast' = [op |-> "read", kind |-> "ok", val |-> n, newStream |-> FALSE]
  /\ UNCHANGED <<hLen, readahead_limit, warned, warnings, forced, hState>>

\* seek(Start(target)): inside the window the cursor advances and the skipped
\* bytes are discarded; beyond it, or backwards, the stream is closed and a new
\* ranged GET is opened at target, with the warning the first time.
HttpSeek(target) ==
  /\ hState = "reading"
  /\ target \in 0..hLen
  /\ cursor' = target
  /\ IF InReadahead(target)
     THEN /\ fetched' = IF target - cursor <= fetched THEN fetched - (target - cursor) ELSE 0
          /\ hLast' = [op |-> "seek", kind |-> "ok", val |-> target, newStream |-> FALSE]
          /\ UNCHANGED <<warned, warnings, forced>>
     ELSE /\ forced < MaxForced
          /\ fetched' = 0
          /\ forced' = forced + 1
          /\ hLast' = [op |-> "seek", kind |-> "ok", val |-> target, newStream |-> TRUE]
          /\ IF FirstForcedStream(warned)
             THEN /\ warned' = TRUE
                  /\ warnings' = ReportOnInsufficientReadaheadSize(warnings)
             ELSE UNCHANGED <<warned, warnings>>
  /\ UNCHANGED <<hLen, readahead_limit, hState>>

\* A network error in the middle of the stream: the read fails, the error is
\* fatal to the extraction.
HttpTransient ==
  /\ hState = "reading"
  /\ cursor + fetched < hLen
  /\ hState' = "failed"
  /\ hLast' = [op |-> "read", kind |-> "err", val |-> 0, newStream |-> FALSE]
  /\ UNCHANGED <<hLen, readahead_limit, cursor, fetched, warned, warnings, forced>>

\* The extraction has read what it needed.
HttpDone ==
  /\ hState = "reading"
  /\ hState' = "done"
  /\ UNCHANGED <<hLen, readahead_limit, cursor, fetched, warned, warnings, forced, hLast>>

HttpNext ==
  \/ HttpPull
  \/ \E n \in 1..MaxObject : HttpRead(n)
  \/ \E target \in 0..MaxObject : HttpSeek(target)
  \/ HttpTransient
  \/ HttpDone

\* ------------------------------------------------------- specifications
\* Several handles on one shared source, with the history of calls.
Init == SharedInit /\ ghost = {"calls"} /\ MainIdle /\ EngineIdle /\ HttpIdle
Next == ReaderNext /\ UNCHANGED <<mainVars, engineVars, httpVars>>
Spec == Init /\ [][Next]_vars

\* The same, with the history of the bytes each handle has read.
InitBytes == SharedInit /\ ghost = {"bytes"} /\ MainIdle /\ EngineIdle /\ HttpIdle
SpecBytes == InitBytes /\ [][Next]_vars

\* One handle; both build profiles, both kinds of source, every seek.
InitSolo == ReaderInit /\ ghost = {"calls", "bytes"} /\ MainIdle /\ EngineIdle /\ HttpIdle
SpecSolo == InitSolo /\ [][SoloNext /\ UNCHANGED <<mainVars, engineVars, httpVars>>]_vars

\* The command-line program.
InitMain ==
  /\ ReaderInit /\ len = 0 /\ srcKind = "cursor" /\ overflow_checks /\ ghost = {}
  /\ MainInit /\ EngineIdle /\ HttpIdle
SpecMain == InitMain /\ [][MainNext /\ UNCHANGED <<readerVars, engineVars, httpVars>>]_vars

\* Several handles on a source that may also panic under the lock.
InitLock == SharedInit /\ ghost = {"calls"} /\ MainIdle /\ EngineIdle /\ HttpIdle
SpecLock == InitLock /\ [][LockNext /\ UNCHANGED <<mainVars, engineVars, httpVars>>]_vars

\* The same under a fair mutex, without the history: the calls the source makes
\* inside the critical section return or panic (weak fairness), and a handle that
\* keeps finding the lock free gets it (strong fairness).
InitFair == SharedInit /\ ghost = {} /\ MainIdle /\ EngineIdle /\ HttpIdle
LockFairness ==
  \A h \in Handles :
    /\ WF_vars(CriticalStep(h) /\ UNCHANGED <<mainVars, engineVars, httpVars>>)
    /\ SF_vars((ReadLock(h) \/ LenLock(h)) /\ UNCHANGED <<mainVars, engineVars, httpVars>>)
SpecFair == InitFair /\ [][LockNext /\ UNCHANGED <<mainVars, engineVars, httpVars>>]_vars /\ LockFairness

\* Several handles on a stream whose length changes under them.
InitResize == SharedInit /\ ghost = {"seeks"} /\ MainIdle /\ EngineIdle /\ HttpIdle
SpecResize == InitResize /\ [][ResizeNext /\ UNCHANGED <<mainVars, engineVars, httpVars>>]_vars

\* unzip() on every small archive, in both threading modes.
InitEngine ==
  /\ ReaderInit /\ len = 0 /\ srcKind = "cursor" /\ overflow_checks /\ ghost = {}
  /\ MainIdle /\ EngineInit /\ HttpIdle
SpecEngine == InitEngine /\ [][EngineNext /\ UNCHANGED <<readerVars, mainVars, httpVars>>]_vars

\* An extraction from a URI: the ranged reader under the seeks and reads made
\* of it.
InitHttp ==
  /\ ReaderInit /\ len = 0 /\ srcKind = "cursor" /\ overflow_checks /\ ghost = {}
  /\ MainIdle /\ EngineIdle /\ HttpInit
SpecHttp == InitHttp /\ [][HttpNext /\ UNCHANGED <<readerVars, mainVars, engineVars>>]_vars

\* ------------------------------------------------------------- claims
\* C1: a handle that did seek(Start(k)) and has since read n bytes, in one or
\* several reads, has obtained exactly the source's bytes [k, k + n), all of them
\* inside the source, whatever the other handles did in between.
C1_SeekStartThenReadsYieldSourceBytes ==
  \A h \in live : \A k \in anchor[h] :
    /\ got[h] = Bytes(k, Len(got[h]))
    /\ got[h] # <<>> => k + Len(got[h]) <= len
    /\ pos[h] = k + Len(got[h])

\* C1's case: a handle has collected two bytes since its seek(Start) while another
\* handle stands elsewhere and has left the shared cursor elsewhere.
C1_Witness ==
  \E h \in live, g \in live :
    /\ g # h /\ anchor[h] # {} /\ Len(got[h]) = 2
    /\ pos[g] # pos[h] /\ upos # pos[h] /\ anchor[g] # {} /\ got[g] # <<>>

\* C2: clone() gives the new handle the parent's pos of that moment, and from
\* then on a handle's pos changes only in a step that completes a read or a seek
\* of that very handle, while every other handle stays where it is in its call.
C2_CloneStartsAtParentPosThenIndependent ==
  [][ /\ \A g \in Handles :
           (g \notin live /\ g \in live') =>
             /\ last'.op = "clone" /\ last'.h = g /\ last'.val \in live
             /\ pos'[g] = pos[last'.val]
      /\ \A h \in live :
           pos'[h] # pos[h] =>
             /\ last' # last /\ last'.h = h /\ last'.op \in {"read", "seek"}
             /\ pc[h] # "idle" \/ last'.op = "seek"
             /\ \A g \in Handles \ {h} : pc'[g] = pc[g] /\ pos'[g] = pos[g] ]_vars

\* C2's case: both handles exist and their cursors have moved apart since the clone.
C2_Witness ==
  /\ live = Handles /\ pos[1] # pos[2]
  /\ last.op \in {"read", "seek"}

\* The step in which a read on h returns (or panics).
ReadCompletes(h) == pc[h] \in {"rd_locked", "rd_seeked"} /\ pc'[h] \in {"idle", "panicked"}

\* The step in which the underlying seek or read of a read on h fails.
UnderlyingFails(h) == \E e \in ErrorKinds : ReadSeekFail(h, e) \/ ReadReadFail(h, e)

\* The step in which seek(sf) on h returns (or panics).
SeekCompletes(h, sf) == Seek(h, sf) \/ (sf.whence = "End" /\ LenRead(h, sf.off))

\* Where seek(sf) is to land, in unbounded integers, from position p.
Target(p, sf) ==
  CASE sf.whence = "Start" -> sf.off
    [] sf.whence = "Current" -> p + sf.off
    [] sf.whence = "End" -> len + sf.off

\* C3 as claimed: a read begun at pos <= len ends at pos <= len, and a read begun
\* at pos = len returns Ok(0), never an error, and leaves pos unchanged.
C3_ReadAtEndIsOkZero ==
  [][ \A h \in live : ReadCompletes(h) =>
        /\ pos[h] <= len => pos'[h] <= len
        /\ pos[h] = len =>
             /\ last'.h = h /\ last'.op = "read"
             /\ last'.kind = "ok" /\ last'.val = 0
             /\ pos'[h] = pos[h] ]_vars

\* C3 as amended: a read begun at pos <= len ends at pos <= len, and a read begun
\* at pos = len leaves pos unchanged and returns Ok(0), unless the underlying seek
\* or read itself fails, in which case it returns that error.
C3_ReadNeverPassesEnd ==
  [][ \A h \in live : ReadCompletes(h) =>
        /\ pos[h] <= len => pos'[h] <= len
        /\ pos[h] = len =>
             /\ last'.h = h /\ last'.op = "read"
             /\ pos'[h] = pos[h]
             /\ \/ last'.kind = "ok" /\ last'.val = 0 /\ last'.bytes = <<>>
                \/ last'.kind = "err" /\ UnderlyingFails(h) ]_vars

\* C3's case: a read with a non-empty buffer has just returned Ok(0) at the end of
\* a non-empty source.
C3_Witness ==
  \E h \in live :
    /\ len > 0 /\ pos[h] = len /\ pc[h] = "idle"
    /\ last.h = h /\ last.op = "read" /\ last.kind = "ok" /\ last.val = 0

\* C4: seek(Current(d)) with pos + d < 0 and seek(End(d)) with len + d < 0 return
\* an error and leave pos unchanged.
C4_NegativeTargetIsAnError ==
  [][ \A h \in live, sf \in SeekFroms :
        (sf.whence # "Start" /\ Target(pos[h], sf) < 0 /\ SeekCompletes(h, sf)) =>
          /\ last'.h = h /\ last'.op = "seek" /\ last'.kind = "err"
          /\ pos'[h] = pos[h] /\ pc'[h] = "idle" ]_vars

\* C5: a seek whose target lies past the end (and fits in a u64) succeeds and
\* returns that target: k for Start(k), pos + d for Current(d), len + d for
\* End(d) with d > 0; and a read begun past the end returns no bytes.
C5_SeekPastEndSucceeds ==
  [][ /\ \A h \in live, sf \in SeekFroms :
           LET t == Target(pos[h], sf)
           IN (t > len /\ t < U64Mod /\ SeekCompletes(h, sf)) =>
                /\ last'.h = h /\ last'.op = "seek" /\ last'.kind = "ok"
                /\ last'.val = t /\ pos'[h] = t
      /\ \A h \in live :
           (ReadCompletes(h) /\ pos[h] > len /\ last'.kind = "ok") =>
             last'.val = 0 /\ pos'[h] = pos[h] ]_vars

\* C6: on one handle over an in-memory source, with the cursor in [0, len], a seek
\* whose target lies in [0, len] returns that target and moves the cursor there
\* (Current(0) stays, End(-k) lands on len - k), and a read never fails and
\* returns the next min(buf.len(), len - pos) bytes of the source and advances by
\* that count, so that a read_exact of more bytes than remain runs into Ok(0).
C6_MatchesPlainCursor ==
  [][ srcKind = "cursor" =>
        /\ \A sf \in SeekFroms :
             LET t == Target(pos[1], sf)
             IN (pos[1] <= len /\ 0 <= t /\ t <= len /\ SeekCompletes(1, sf)) =>
                  /\ last'.op = "seek" /\ last'.kind = "ok" /\ last'.val = t
                  /\ pos'[1] = t
        /\ (ReadCompletes(1) /\ pos[1] <= len) =>
             /\ last'.op = "read" /\ last'.kind = "ok"
             /\ last'.bytes = Bytes(pos[1], last'.val)
             /\ pos'[1] = pos[1] + last'.val
             /\ \A b \in 0..MaxBuf : ReadRead(1, b, last'.val) => last'.val = Min(b, len - pos[1])
      ]_vars

\* C6's case, the end of the repository's test: after seek(End(-2)) the read of
\* two bytes has returned the last two bytes of the in-memory source.
C6_Witness ==
  /\ srcKind = "cursor" /\ len >= 2
  /\ file_length[1] = {len} /\ pos[1] = len
  /\ last.op = "read" /\ last.kind = "ok" /\ last.val = 2 /\ last.bytes = Bytes(len - 2, 2)

\* C7: when the underlying seek or read of a read fails with e, the read returns
\* e itself, pos stays, and the lock is free with the handle ready for its next
\* call; when the underlying read returns n bytes, short or not, the read returns
\* n with those bytes and pos has advanced by exactly n.
C7_ReadResultsAreVerbatim ==
  [][ \A h \in live :
        /\ (pc[h] = "rd_locked" /\ pc'[h] = "idle") =>
             /\ \A e \in ErrorKinds : ReadSeekFail(h, e) => last'.err = e
             /\ last'.h = h /\ last'.op = "read" /\ last'.kind = "err"
             /\ pos' = pos /\ mutex' = {}
        /\ (pc[h] = "rd_seeked" /\ pc'[h] = "idle") =>
             /\ last'.h = h /\ last'.op = "read" /\ mutex' = {}
             /\ \A e \in ErrorKinds : ReadReadFail(h, e) =>
                  last'.kind = "err" /\ last'.err = e /\ pos' = pos
             /\ \A b \in 0..MaxBuf, n \in 0..MaxBuf : ReadRead(h, b, n) =>
                  /\ last'.kind = "ok" /\ last'.val = n /\ last'.bytes = Bytes(pos[h], n)
                  /\ pos' = [pos EXCEPT ![h] = pos[h] + n]
        /\ (pc[h] \in {"rd_locked", "rd_seeked"} /\ pc'[h] # pc[h]) =>
             pc'[h] \in {"rd_seeked", "idle"} ]_vars

\* C7's case: a read on h failed, and the next read on h is under way: it holds
\* the lock and has put the shared cursor on h's unchanged pos, in front of data.
C7_Witness ==
  \E h \in live :
    /\ last.h = h /\ last.op = "read" /\ last.kind = "err" /\ last.err = "TimedOut"
    /\ pc[h] = "rd_seeked" /\ mutex = {h} /\ upos = pos[h] /\ pos[h] < len

\* A step of a seek on h: the whole of seek(Start), seek(Current) and seek(End)
\* with a cached length, or one of the three steps of the first seek(End).
SeekStep(h) ==
  \/ pc'[h] # pc[h] /\ (pc[h] \in {"len_wait", "len_locked"} \/ pc'[h] = "len_wait")
  \/ pc[h] = "idle" /\ last' # last /\ last'.h = h /\ last'.op = "seek"

\* C8: no step of a seek moves the shared cursor or changes another handle's pos
\* or cached length; the handle's cached length changes only from None to the
\* source's length, in a seek(End); the lock is touched only by a seek(End) on a
\* handle without cached length; seek(Start), seek(Current) and seek(End) with a
\* cached length return at once, without the lock, however the lock is held; and
\* no seek makes an underlying seek or read.
C8_SeekTouchesOnlyItsHandle ==
  [][ \A h \in live : SeekStep(h) =>
        /\ upos' = upos
        /\ \A g \in Handles \ {h} : pos'[g] = pos[g] /\ file_length'[g] = file_length[g]
        /\ file_length'[h] # file_length[h] =>
             file_length[h] = {} /\ file_length'[h] = {len} /\ last'.whence = "End"
        /\ mutex' # mutex =>
             /\ file_length[h] = {}
             /\ \/ pc[h] = "len_wait" /\ mutex = {} /\ mutex' = {h}
                \/ pc[h] = "len_locked" /\ mutex = {h} /\ mutex' = {} /\ last'.whence = "End"
        /\ (last' # last /\ pc[h] = "idle") =>
             last'.locks = 0 /\ (last'.whence = "End" => file_length[h] # {})
        /\ (last' # last /\ last'.whence \in {"Start", "Current"}) => pc[h] = "idle"
        /\ last' # last => last'.seeks = 0 /\ last'.reads = 0 /\ last'.locks <= 1
        /\ pos'[h] # pos[h] => last' # last /\ last'.kind = "ok" /\ last'.val = pos'[h] ]_vars

\* C8's case: a seek(Current) has just returned on h while another handle holds
\* the lock between its underlying seek and read, the shared cursor still where
\* that handle put it.
C8_Witness ==
  \E h \in live, g \in live :
    /\ g # h /\ last.h = h /\ last.op = "seek" /\ last.whence = "Current"
    /\ pc[g] = "rd_seeked" /\ mutex = {g} /\ upos = pos[g] /\ pos[h] # upos

\* What holds of the lock and the shared cursor at every moment: at most one
\* guard exists, held exactly by a handle inside its critical section, and from a
\* handle's underlying seek to its underlying read the shared cursor stays on
\* that handle's pos.
CriticalSection ==
  /\ Cardinality(mutex) <= 1
  /\ \A h \in Handles : h \in mutex <=> pc[h] \in {"rd_locked", "rd_seeked", "len_locked"}
  /\ \A h \in Handles :
       /\ pc[h] = "rd_seeked" => upos = pos[h] /\ cnt[h] = [lock |-> 1, seek |-> 1, read |-> 0]
       /\ pc[h] = "rd_locked" => cnt[h] = [lock |-> 1, seek |-> 0, read |-> 0]
       /\ pc[h] = "len_locked" => cnt[h] = [lock |-> 1, seek |-> 0, read |-> 0]

\* C9 as claimed: the source is accessed under the lock only, by one handle at a
\* time, undisturbed between a read's underlying seek and its underlying read,
\* and every read call makes exactly one underlying seek and exactly one
\* underlying read in one lock acquisition.
C9_OneSeekOneReadPerCall ==
  /\ CriticalSection
  /\ last.op = "read" => last.locks = 1 /\ last.seeks = 1 /\ last.reads = 1

\* C9 as amended: the same, but a read call that returns makes exactly one
\* underlying seek and, unless that seek fails, exactly one underlying read (none
\* if it fails).
C9_OneSeekAtMostOneReadPerCall ==
  /\ CriticalSection
  /\ (last.op = "read" /\ last.kind # "panic") =>
       /\ last.locks = 1 /\ last.seeks = 1 /\ last.reads <= 1
       /\ last.kind = "ok" => last.reads = 1
       /\ last.reads = 0 => last.kind = "err"

\* C9's case: one handle is between its underlying seek and read while the other
\* waits for the lock with its cursor elsewhere.
C9_Witness ==
  \E h \in live, g \in live :
    /\ g # h /\ pc[h] = "rd_seeked" /\ pc[g] \in {"rd_wait", "len_wait"}
    /\ pos[g] # upos

Holding == {"rd_locked", "rd_seeked", "len_locked"}
Waiting == {"rd_wait", "len_wait"}

\* C11: the lock becomes poisoned exactly when a handle panics while holding it
\* and stays poisoned; from then on nobody is inside the critical section, the
\* source is never accessed again, and every read and every seek(End) without
\* cached length that gets the lock panics with the PoisonError, returning
\* neither bytes nor an error and changing no pos and no cached length.
C11_PoisonedLockIsFatal ==
  [][ /\ (poisoned' /\ ~poisoned) =>
           \E h \in live : pc[h] \in Holding /\ pc'[h] = "panicked"
      /\ poisoned =>
           /\ poisoned'
           /\ upos' = upos /\ mutex = {} /\ mutex' = {}
           /\ \A h \in live :
                pos'[h] # pos[h] => (last'.h = h /\ last'.op = "seek" /\ last'.locks = 0)
           /\ \A h \in live :
                /\ pc[h] \notin Holding /\ pc'[h] \notin Holding
                /\ (pc[h] \in Waiting /\ pc'[h] # pc[h]) =>
                     /\ pc'[h] = "panicked"
                     /\ last'.h = h /\ last'.kind = "panic" /\ last'.err = "PoisonError"
                     /\ last'.op = (IF pc[h] = "rd_wait" THEN "read" ELSE "seek")
                     /\ last'.bytes = <<>> /\ last'.seeks = 0 /\ last'.reads = 0
                     /\ pos' = pos /\ file_length' = file_length
                /\ (last' # last /\ last'.h = h /\ last'.op = "read") => pc[h] = "rd_wait" ]_vars

\* C11's case: one handle panicked inside the critical section, and the read of
\* the other handle, which has data in front of it, has aborted on the poisoned
\* lock.
C11_Witness ==
  \E h \in live, g \in live :
    /\ g # h /\ poisoned /\ pc[g] = "panicked" /\ pc[h] = "panicked"
    /\ last.h = h /\ last.op = "read" /\ last.kind = "panic" /\ last.err = "PoisonError"
    /\ pos[h] < len

\* C18: the guard is held exactly inside the critical section, so every way out
\* of it (Ok, the early return of a failed underlying seek, a failed underlying
\* read, the end of the length query, a panic) leaves the lock free and no handle
\* waits for a lock it holds; whenever a handle waits and the lock is taken, its
\* holder is another handle inside the critical section; a read ends in a panic
\* only with the lock poisoned; and every read and every length query that has
\* started comes to its end.
C18_LockReleasedOnEveryPath ==
  /\ [](\A h \in Handles :
          /\ h \in mutex <=> pc[h] \in Holding
          /\ (pc[h] \in Waiting /\ mutex # {}) =>
               \E g \in Handles \ {h} : mutex = {g})
  /\ [][ \A h \in Handles :
           /\ (pc[h] \in Holding /\ pc'[h] \notin Holding) =>
                mutex' = {} /\ pc'[h] \in {"idle", "panicked"}
           /\ (pc[h] \in {"rd_wait", "rd_locked", "rd_seeked"} /\ pc'[h] = "panicked") =>
                poisoned' ]_vars
  /\ \A h \in Handles : (pc[h] \in Waiting \cup Holding) ~> (pc[h] \in {"idle", "panicked"})

\* C18's case: a read waits for the lock while the length query of another
\* handle holds it.
C18_Witness ==
  \E h \in live, g \in live :
    /\ g # h /\ pc[h] = "rd_wait" /\ pc[g] = "len_locked" /\ mutex = {g}

\* C19: a handle's cached length changes only from None, and only in two ways:
\* the length query of its first seek(End) sets it to the source's length of that
\* moment, or clone() gives a new handle the parent's cached length (None if the
\* parent has none); a handle with a cached length never asks the source again:
\* its seek(End(d)) takes no lock and, when it returns, returns cached + d,
\* whatever the source's length has become.
C19_LengthCachedOncePerHandle ==
  [][ \A h \in Handles :
        /\ file_length[h] # {} => file_length'[h] = file_length[h]
        /\ (h \in live /\ file_length'[h] # file_length[h]) =>
             /\ pc[h] = "len_locked" /\ file_length'[h] = {len}
             /\ last'.h = h /\ last'.op = "seek" /\ last'.whence = "End" /\ last'.locks = 1
        /\ (h \notin live /\ h \in live') =>
             /\ last'.op = "clone" /\ last'.h = h
             /\ file_length'[h] = file_length[last'.val]
        /\ h \notin live' => file_length'[h] = {}
        /\ pc'[h] \in {"len_wait", "len_locked"} => file_length'[h] = {}
        /\ \A d \in I64 :
             (h \in live /\ file_length[h] # {} /\ Seek(h, [whence |-> "End", off |-> d])) =>
               /\ last'.h = h /\ last'.op = "seek" /\ last'.locks = 0
               /\ mutex' = mutex /\ upos' = upos
               /\ last'.kind = "ok" =>
                    \A c \in file_length[h] : last'.val = c + d /\ pos'[h] = c + d ]_vars

\* C19's case: a clone made after the parent's first seek(End) has just done a
\* seek(End) of its own, without the lock, to the end as it was cached, which is
\* no longer the end of the source.
C19_Witness ==
  \E c \in file_length[1] :
    /\ 2 \in live /\ file_length[2] = {c} /\ c # len
    /\ last.h = 2 /\ last.op = "seek" /\ last.whence = "End" /\ last.kind = "ok"
    /\ last.locks = 0 /\ last.val = c /\ pos[2] = c

\* C12: for an archive the baseline extractor accepts, extracted into a usable
\* output directory, unzip() ends with Ok in both threading modes and under
\* every interleaving of the workers, and the tree it leaves is the baseline's.
C12_SameTreeAsBaseline ==
  (ePc = "done" /\ options.root = "usable" /\ Baseline(archive, {}).ok) =>
    /\ eResult = "Ok"
    /\ tree = Baseline(archive, {}).tree
    /\ outside = {}

\* C12's case: a multi-threaded run over a directory entry and a file inside
\* that directory has ended, the baseline accepting the archive.
C12_Witness ==
  /\ ePc = "done" /\ ~options.single_threaded /\ options.root = "usable"
  /\ Len(archive) = 2 /\ Baseline(archive, {}).ok
  /\ \E i, j \in Members :
       /\ Catalogue[archive[i]].dir /\ ~Catalogue[archive[j]].dir
       /\ Len(Catalogue[archive[j]].name) = 2
  /\ eResult = "Ok" /\ Cardinality(tree) = 2

C14_ReportedBytesAddUp ==
  /\ []((ePc = "done" /\ eResult = "Ok") => bar.position = SumSizes(archive))
  /\ [][ /\ bar'.position >= bar.position
         /\ bytesCalls' = bytesCalls + 1 =>
              \E i \in Members :
                /\ written'[i] > written[i]
                /\ bar'.position - bar.position = written'[i] - written[i]
         /\ bytesCalls' = bytesCalls => bar'.position = bar.position ]_vars

\* C14's case: a multi-threaded run over two files has succeeded after three
\* bytes_extracted calls, the larger file reported in two parts.
C14_Witness ==
  /\ ePc = "done" /\ eResult = "Ok" /\ ~options.single_threaded
  /\ Len(archive) = 2 /\ bytesCalls = 3 /\ bar.position = 3
  /\ SumSizes(archive) = 3

\* C15: nothing is ever created outside the output root; a member whose name is
\* absolute or escapes the root is rejected with PathUnsafe in the step that
\* takes it up, which touches no file or directory, it never writes a byte, and
\* an unzip() over an archive with such a member that got as far as taking it up
\* does not end with Ok.
C15_NothingOutsideTheRoot ==
  /\ [](outside = {})
  /\ [](\A i \in Members :
          EscapesRoot(Catalogue[archive[i]]) =>
            /\ task[i] \in {"pending", "started", "failed", "cancelled"}
            /\ written[i] = 0
            /\ (ePc = "done" /\ task[i] # "pending") => eResult # "Ok")
  /\ []((ePc = "done" /\ \E i \in Members : EscapesRoot(Catalogue[archive[i]]))
          => eResult # "Ok")
  /\ [][ \A i \in Members :
           (EscapesRoot(Catalogue[archive[i]]) /\ task[i] = "started" /\ task'[i] # "started") =>
             /\ tree' = tree /\ outside' = outside
             /\ (task'[i] = "failed" =>
                   /\ firstError' # NoError
                   /\ firstError = NoError => firstError' = [kind |-> "PathUnsafe", member |-> i]) ]_vars

\* C15's case: a run in which a sibling had already created its file ended with
\* PathUnsafe for a member with an escaping name, and nothing is outside the root.
C15_Witness ==
  /\ ePc = "done" /\ eResult = "PathUnsafe" /\ tree # {} /\ outside = {}
  /\ \E i \in Members :
       /\ EscapesRoot(Catalogue[archive[i]]) /\ ~Catalogue[archive[i]].abs
       /\ task[i] = "failed" /\ firstError.member = i

C17_WarnedOnceOnFirstForcedStream ==
  /\ [](warnings <= 1)
  /\ [](warnings = 1 <=> forced >= 1)
  /\ [][ warnings' # warnings => (forced = 0 /\ forced' = 1 /\ warnings' = 1) ]_vars
  /\ [][ forced' # forced =>
           /\ forced' = forced + 1 /\ warnings' = 1
           /\ hLast'.op = "seek" /\ hLast'.newStream /\ hLast'.kind = "ok"
           /\ hLast'.val = cursor' /\ hState' = "reading" ]_vars

\* C17's case: an extraction in which three seeks forced new streams was read to
\* the end of the object after them and has ended, with one warning.
C17_Witness ==
  /\ hState = "done" /\ forced = 3 /\ warnings = 1
  /\ hLast.op = "read" /\ hLast.kind = "ok" /\ cursor = hLen
====
